---- MODULE Spec2Model ----
(***************************************************************************)
(* Model of erdos/962/mk_iocp_tiled_sieve_strided_fastdiv.c: the strided,  *)
(* tiled smoothness sieve with carried offsets and FastDiv, the epoch      *)
(* controller (find_m_for_k, epoch_begin, epoch_wait), the worker threads  *)
(* that block on one shared completion port, and main's loop over k.       *)
(*                                                                         *)
(* C arrays indexed from 0 that hold one entry per prime (primes.p, fd,    *)
(* step_mod, off) are sequences indexed from 1; residual and bad_bits are  *)
(* functions on 0..win_len-1.  uint64_t is an unsigned word of WordBits    *)
(* bits, so UINT64_MAX is 2^WordBits - 1 and arithmetic wraps at 2^WordBits.*)
(***************************************************************************)
EXTENDS Integers, Sequences, FiniteSets, TLC

\* ---------------------------------------------------------------- bounds
WordBits == 10
MaxK == 3
MaxThreads == 2
MaxTileLen == 2
MaxBatchTiles == 2
MaxM == 20
MaxTsbThreads == 3
MaxTsbM == 3

Pow2(n) == 2 ^ n
Wrap == Pow2(WordBits)
UINT64_MAX == Wrap - 1
U64(x) == x % Wrap

KEY_START == 1
KEY_STOP == 2

\* ------------------------------------------------------------- FastDivU32
mulhi_u64(a, b) == (a * b) \div Wrap

fastdiv_u32_make_prime(d) ==
    [d |-> d, mul |-> IF d = 2 THEN Pow2(WordBits - 1) ELSE UINT64_MAX \div d]

Correct(qr, d) ==
    IF qr.r >= d THEN [q |-> U64(qr.q + 1), r |-> qr.r - d] ELSE qr

\* mutant of fastdiv_u32_divmod: the quotient estimate is returned as it is
fastdiv_u32_divmod_uncorrected(f, n) ==
    LET q0 == mulhi_u64(n, f.mul)
    IN  [q |-> q0, r |-> U64(n - q0 * f.d)]

fastdiv_u32_divmod(f, n) ==
    LET q0 == mulhi_u64(n, f.mul)
        rr == U64(n - q0 * f.d)
    IN  Correct(Correct([q |-> q0, r |-> rr], f.d), f.d)

fastdiv_u32_mod(f, n) == fastdiv_u32_divmod(f, n).r

\* returns the int result and the value left in *n_io
fastdiv_u32_divide_if_divisible(f, n_io) ==
    LET qr == fastdiv_u32_divmod(f, n_io)
    IN  IF qr.r # 0 THEN [ret |-> 0, n_io |-> n_io] ELSE [ret |-> 1, n_io |-> qr.q]

\* mutant of StripOdd: the prime is divided out once only
StripOdd_once(f, x) ==
    LET qr == fastdiv_u32_divmod(f, x)
    IN  IF qr.r # 0 \/ x = 0 THEN x ELSE qr.q

\* while (fastdiv_u32_divide_if_divisible(f, &x)) {}
\* (x = 0 would divide forever in the C loop; residuals below MaxM are >= 1)
RECURSIVE StripOdd(_, _)
StripOdd(f, x) ==
    LET dv == fastdiv_u32_divide_if_divisible(f, x)
    IN  IF dv.ret = 0 \/ x = 0 THEN x ELSE StripOdd(f, dv.n_io)

\* mutant of ShiftOutZeros: one zero bit is shifted out only
ShiftOutZeros_once(x) ==
    IF x = 0 \/ x % 2 = 1 THEN x ELSE x \div 2

\* x >>= __builtin_ctzll(x)
RECURSIVE ShiftOutZeros(_)
ShiftOutZeros(x) ==
    IF x = 0 \/ x % 2 = 1 THEN x ELSE ShiftOutZeros(x \div 2)

\* ------------------------------------------------------------ primes_upto
RECURSIVE MarkComposites(_, _, _)
MarkComposites(i, n, mark) ==
    IF i * i > n THEN mark
    ELSE IF i \in mark THEN MarkComposites(i + 1, n, mark)
    ELSE MarkComposites(i + 1, n,
            mark \cup {j \in (i * i)..n : (j - i * i) % i = 0})

RECURSIVE CollectUnmarked(_, _, _)
CollectUnmarked(i, n, mark) ==
    IF i > n THEN << >>
    ELSE IF i \in mark THEN CollectUnmarked(i + 1, n, mark)
    ELSE <<i>> \o CollectUnmarked(i + 1, n, mark)

primes_upto(n) ==
    IF n < 2 THEN << >> ELSE CollectUnmarked(2, n, MarkComposites(2, n, {}))

\* ------------------------------------------------------ epoch_prepare_math
MakeFd(pl) == [i \in 1..Len(pl) |-> fastdiv_u32_make_prime(pl[i])]

MakeStepMod(pl, f, step) ==
    [i \in 1..Len(pl) |->
        IF pl[i] = 2 THEN step % 2 ELSE fastdiv_u32_mod(f[i], step)]

\* ------------------------------------------------------------------ sieve
\* One prime's pass over the window: strip p at i = off, off+p, ... < win_len
\* (the window is bound once, as r, before the pass reads it)
StripPrime(e, pi, o, residual) ==
    LET p == e.primes[pi]
    IN  CHOOSE f \in
            {[i \in DOMAIN r |->
                IF i >= o /\ (i - o) % p = 0
                THEN IF p = 2 THEN ShiftOutZeros(r[i])
                     ELSE StripOdd(e.fd[pi], r[i])
                ELSE r[i]] : r \in {residual}} : TRUE

RECURSIVE SievePrimes(_, _, _, _)
SievePrimes(e, pi, off, residual) ==
    IF pi > Len(e.primes) THEN residual
    ELSE SievePrimes(e, pi + 1, off, StripPrime(e, pi, off[pi], residual))

\* mutant of CarryOff: the wrap-around by p is forgotten
CarryOff_nowrap(e, off) ==
    [pi \in 1..Len(e.primes) |->
        LET sm == e.step_mod[pi]
            o  == off[pi]
        IN  IF o >= sm THEN o - sm ELSE o]

\* carry offset to the next tile of this worker's stream
CarryOff(e, off) ==
    [pi \in 1..Len(e.primes) |->
        LET sm == e.step_mod[pi]
            o  == off[pi]
            p  == e.primes[pi]
        IN  IF sm # 0 THEN (IF o >= sm THEN o - sm ELSE o + p - sm) ELSE o]

sieve_window_bad_bits_carried_fastdiv(e, base_test, start_count, off) ==
    LET win_len  == start_count + e.k
        seed     == [i \in 0..(win_len - 1) |-> U64(base_test + i)]
    IN  CHOOSE sv \in
            {[bad_bits |-> [i \in 0..(win_len - 1) |-> IF residual[i] = 1 THEN 1 ELSE 0],
              off      |-> CarryOff(e, off)] :
                residual \in {SievePrimes(e, 1, off, seed)}} : TRUE

\* mutant of CountBits: the first bit of the range is not counted
CountBits_skipfirst(bits, lo, hi) ==
    Cardinality({i \in (lo + 1)..hi : bits[i] = 1})

RECURSIVE CountBits(_, _, _)
CountBits(bits, lo, hi) ==
    IF lo > hi THEN 0 ELSE bits[lo] + CountBits(bits, lo + 1, hi)

\* mutant of RollWindow: the bit leaving the window is taken one place too far
RECURSIVE RollWindow_stale(_, _, _, _, _, _)
RollWindow_stale(bits, k, m0, start_count, s, bad) ==
    IF s >= start_count THEN UINT64_MAX
    ELSE LET b == bad - bits[s] + bits[s + k - 1]
         IN  IF b = 0 THEN U64(m0 + s)
             ELSE RollWindow_stale(bits, k, m0, start_count, s + 1, b)

RECURSIVE RollWindow(_, _, _, _, _, _)
RollWindow(bits, k, m0, start_count, s, bad) ==
    IF s >= start_count THEN UINT64_MAX
    ELSE LET b == bad - bits[s - 1] + bits[s + k - 1]
         IN  IF b = 0 THEN U64(m0 + s)
             ELSE RollWindow(bits, k, m0, start_count, s + 1, b)

\* mutant of ScanBits: only the first window is looked at
ScanBits_norolling(bits, k, m0, start_count) ==
    IF CountBits(bits, 0, k - 1) = 0 THEN m0 ELSE UINT64_MAX

\* the window scan of one sieved tile: first count, then the rolling update
ScanBits(bits, k, m0, start_count) ==
    LET bad == CountBits(bits, 0, k - 1)
    IN  IF bad = 0 THEN m0 ELSE RollWindow(bits, k, m0, start_count, 1, bad)

\* returns the found m (or UINT64_MAX), the advanced offsets and the buffer
scan_tile_find_m_carried_fastdiv(e, m0, start_count, off, bad_bits) ==
    IF start_count = 0 THEN [found |-> UINT64_MAX, off |-> off, bad_bits |-> bad_bits]
    ELSE CHOOSE res \in
            {[found    |-> ScanBits(sv.bad_bits, e.k, m0, start_count),
              off      |-> sv.off,
              bad_bits |-> sv.bad_bits] :
                sv \in {sieve_window_bad_bits_carried_fastdiv(e, U64(m0 + 1),
                                                              start_count, off)}} : TRUE

\* mutant of worker_init_offsets_for_epoch: the residue is taken for the offset
worker_init_offsets_residue(e, tid) ==
    LET base_test0 == U64(e.start_m + tid * e.tile_len + 1)
    IN  [pi \in 1..Len(e.primes) |->
            LET p == e.primes[pi]
            IN  IF p = 2 THEN base_test0 % 2
                ELSE fastdiv_u32_mod(e.fd[pi], base_test0)]

worker_init_offsets_for_epoch(e, tid) ==
    LET base_test0 == U64(e.start_m + tid * e.tile_len + 1)
    IN  [pi \in 1..Len(e.primes) |->
            LET p == e.primes[pi]
            IN  IF p = 2 THEN base_test0 % 2
                ELSE LET r == fastdiv_u32_mod(e.fd[pi], base_test0)
                     IN  IF r # 0 THEN p - r ELSE 0]

safe_add_u64(a, b) ==
    LET c == U64(a + b) IN IF c < a THEN UINT64_MAX ELSE c

\* ------------------------------------------------------------------ state
VARIABLES
    K, thread_count, tile_len, batch_tiles,   \* main: argv
    mpc,            \* position of the main thread
    k, m, last_m, last_print, out,            \* main: loop over k, printed rows
    cur, end, posted,                         \* find_m_for_k / epoch_begin / stop_workers locals
    epoch,          \* js->epoch
    iocp,           \* js->iocp: queued completion packets (keys), FIFO
    wpc,            \* position of each worker thread
    base, off,      \* worker_main: tile base, carried offsets
    bad_bits,       \* worker_main: the worker's bad_bits buffer after its last sieve
    fdcall,         \* one call of the FastDivU32 routines: arguments and results
    found,          \* worker_main: found / try_set_best: m
    tcur, new_lim, old_lim,                   \* try_set_best: cur, new_lim, old_lim
    starts          \* KEY_START packets each worker has dequeued since epoch_begin

vars == <<K, thread_count, tile_len, batch_tiles, mpc, k, m, last_m, last_print,
          out, cur, end, posted, epoch, iocp, wpc, base, off, bad_bits, found, tcur,
          fdcall,
          new_lim, old_lim, starts>>

cfgvars  == <<K, thread_count, tile_len, batch_tiles>>
mainvars == <<mpc, k, m, last_m, last_print, out, cur, end, posted>>
tsbvars  == <<found, tcur, new_lim, old_lim>>

Tids == 0..(thread_count - 1)

\* no call of the FastDivU32 routines is followed on its own
FdIdle == [pc |-> "idle", d |-> 2, n |-> 0, q |-> 0, r |-> 0, ret |-> 0, n_io |-> 0]

\* K=10, tile_len=4, batch_tiles=2, threads=1
EndToEnd == [K |-> 10, threads |-> 1, tile_len |-> 4, batch_tiles |-> 2]

Configs ==
    [K : {MaxK}, threads : 1..MaxThreads, tile_len : 1..MaxTileLen,
     batch_tiles : 1..MaxBatchTiles] \cup {EndToEnd}

\* memset(&js, 0, sizeof(js)); evt_done created non-signalled
EpochZero ==
    [k |-> 0, tile_len |-> 0, step |-> 0, start_m |-> 0, end_m |-> 0,
     primes |-> << >>, fd |-> << >>, step_mod |-> << >>,
     best_m |-> 0, end_limit |-> 0, active_workers |-> 0, evt_done |-> FALSE]

InitWith(cs) ==
    /\ \E c \in cs :
          /\ K = c.K
          /\ thread_count = c.threads
          /\ tile_len = c.tile_len
          /\ batch_tiles = c.batch_tiles
    /\ mpc = "main_loop"
    /\ k = 1
    /\ m = 0
    /\ last_m = 0
    /\ last_print = UINT64_MAX
    /\ out = << >>
    /\ cur = 0
    /\ end = 0
    /\ posted = 0
    /\ epoch = EpochZero
    /\ iocp = << >>
    /\ wpc = [t \in Tids |-> "wait"]
    /\ base = [t \in Tids |-> 0]
    /\ off = [t \in Tids |-> << >>]
    /\ bad_bits = [t \in Tids |-> << >>]
    /\ fdcall = FdIdle
    /\ found = [t \in Tids |-> 0]
    /\ tcur = [t \in Tids |-> 0]
    /\ new_lim = [t \in Tids |-> 0]
    /\ old_lim = [t \in Tids |-> 0]
    /\ starts = [t \in Tids |-> 0]

Init == InitWith(Configs)

\* ------------------------------------------------------------ main thread
\* main: for (k = 1; k <= K; ++k) m = find_m_for_k(...): primes and math arrays
MainCall ==
    /\ mpc = "main_loop"
    /\ k <= K
    /\ LET pl   == primes_upto(k)
           step == U64(tile_len * thread_count)
           f    == MakeFd(pl)
       IN  epoch' = [epoch EXCEPT !.primes = pl, !.k = k, !.tile_len = tile_len,
                                  !.step = step, !.fd = f,
                                  !.step_mod = MakeStepMod(pl, f, step)]
    /\ cur' = last_m
    /\ mpc' = "epoch_begin"
    /\ UNCHANGED <<cfgvars, fdcall, k, m, last_m, last_print, out, end, posted, iocp,
                   wpc, base, off, bad_bits, tsbvars, starts>>

\* mutant of EpochBegin: active_workers is set one short of thread_count
EpochBegin_onefewer ==
    /\ mpc = "epoch_begin"
    /\ LET span0 == U64(tile_len * batch_tiles)
           span  == IF span0 = 0 THEN tile_len ELSE span0
           e     == safe_add_u64(cur, span - 1)
       IN  /\ thread_count > 1 => e + tile_len * thread_count + K + 1 <= MaxM
           /\ end' = e
           /\ epoch' = [epoch EXCEPT !.k = k, !.tile_len = tile_len,
                                     !.start_m = cur, !.end_m = e,
                                     !.step = U64(tile_len * thread_count),
                                     !.best_m = UINT64_MAX, !.end_limit = e,
                                     !.evt_done = FALSE,
                                     !.active_workers = thread_count - 1]
    /\ posted' = 0
    /\ starts' = [t \in Tids |-> 0]
    /\ mpc' = "post_start"
    /\ UNCHANGED <<cfgvars, fdcall, k, m, last_m, last_print, out, cur, iocp, wpc, base,
                   off, bad_bits, tsbvars>>

\* find_m_for_k: span, end, and epoch_begin up to the first post.
\* With one worker every batch is scanned whole and the search ends by itself;
\* with several, a batch can come back empty, so the cursor is bounded by MaxM.
EpochBegin ==
    /\ mpc = "epoch_begin"
    /\ LET span0 == U64(tile_len * batch_tiles)
           span  == IF span0 = 0 THEN tile_len ELSE span0
           e     == safe_add_u64(cur, span - 1)
       IN  /\ thread_count > 1 => e + tile_len * thread_count + K + 1 <= MaxM
           /\ end' = e
           /\ epoch' = [epoch EXCEPT !.k = k, !.tile_len = tile_len,
                                     !.start_m = cur, !.end_m = e,
                                     !.step = U64(tile_len * thread_count),
                                     !.best_m = UINT64_MAX, !.end_limit = e,
                                     !.evt_done = FALSE,
                                     !.active_workers = thread_count]
    /\ posted' = 0
    /\ starts' = [t \in Tids |-> 0]
    /\ mpc' = "post_start"
    /\ UNCHANGED <<cfgvars, fdcall, k, m, last_m, last_print, out, cur, iocp, wpc, base,
                   off, bad_bits, tsbvars>>

\* epoch_begin: PostQueuedCompletionStatus(js->iocp, 0, KEY_START, NULL)
PostStart ==
    /\ mpc = "post_start"
    /\ iocp' = Append(iocp, KEY_START)
    /\ posted' = posted + 1
    /\ mpc' = IF posted + 1 = thread_count THEN "epoch_wait" ELSE "post_start"
    /\ UNCHANGED <<cfgvars, fdcall, k, m, last_m, last_print, out, cur, end, epoch, wpc,
                   base, off, bad_bits, tsbvars, starts>>

\* mutant of EpochWait: best_m is read without waiting for the done event
EpochWait_nowait ==
    /\ mpc = "epoch_wait"
    /\ LET best == epoch.best_m
       IN  IF best # UINT64_MAX
           THEN /\ epoch' = [epoch EXCEPT !.primes = << >>, !.fd = << >>,
                                          !.step_mod = << >>]
                /\ m' = best
                /\ mpc' = "main_ret"
                /\ cur' = cur
           ELSE /\ cur' = safe_add_u64(end, 1)
                /\ mpc' = "epoch_begin"
                /\ UNCHANGED <<epoch, m>>
    /\ UNCHANGED <<cfgvars, fdcall, k, last_m, last_print, out, end, posted, iocp, wpc,
                   base, off, bad_bits, tsbvars, starts>>

\* epoch_wait, then find_m_for_k's test of best
EpochWait ==
    /\ mpc = "epoch_wait"
    /\ epoch.evt_done
    /\ LET best == epoch.best_m
       IN  IF best # UINT64_MAX
           THEN /\ epoch' = [epoch EXCEPT !.primes = << >>, !.fd = << >>,
                                          !.step_mod = << >>]
                /\ m' = best
                /\ mpc' = "main_ret"
                /\ cur' = cur
           ELSE /\ cur' = safe_add_u64(end, 1)
                /\ mpc' = "epoch_begin"
                /\ UNCHANGED <<epoch, m>>
    /\ UNCHANGED <<cfgvars, fdcall, k, last_m, last_print, out, end, posted, iocp, wpc,
                   base, off, bad_bits, tsbvars, starts>>

\* main: last_m = m; print the row when m != last_print; ++k
MainRet ==
    /\ mpc = "main_ret"
    /\ last_m' = m
    /\ IF m # last_print
       THEN /\ out' = Append(out, <<k, m>>)
            /\ last_print' = m
       ELSE UNCHANGED <<out, last_print>>
    /\ k' = k + 1
    /\ mpc' = "main_loop"
    /\ UNCHANGED <<cfgvars, fdcall, m, cur, end, posted, epoch, iocp, wpc, base, off, bad_bits,
                   tsbvars, starts>>

\* main: the loop over k is over
MainLoopExit ==
    /\ mpc = "main_loop"
    /\ k > K
    /\ posted' = 0
    /\ mpc' = "stop_workers"
    /\ UNCHANGED <<cfgvars, fdcall, k, m, last_m, last_print, out, cur, end, epoch, iocp,
                   wpc, base, off, bad_bits, tsbvars, starts>>

\* mutant of StopWorkers: the loop stops one packet short
StopWorkers_short ==
    /\ mpc = "stop_workers"
    /\ iocp' = Append(iocp, KEY_STOP)
    /\ posted' = posted + 1
    /\ mpc' = IF posted + 1 >= thread_count - 1 THEN "wait_all_threads" ELSE "stop_workers"
    /\ UNCHANGED <<cfgvars, fdcall, k, m, last_m, last_print, out, cur, end, epoch, wpc,
                   base, off, bad_bits, tsbvars, starts>>

\* stop_workers: PostQueuedCompletionStatus(js->iocp, 0, KEY_STOP, NULL)
StopWorkers ==
    /\ mpc = "stop_workers"
    /\ iocp' = Append(iocp, KEY_STOP)
    /\ posted' = posted + 1
    /\ mpc' = IF posted + 1 = thread_count THEN "wait_all_threads" ELSE "stop_workers"
    /\ UNCHANGED <<cfgvars, fdcall, k, m, last_m, last_print, out, cur, end, epoch, wpc,
                   base, off, bad_bits, tsbvars, starts>>

\* wait_all_threads: returns when every worker thread has returned
WaitAllThreads ==
    /\ mpc = "wait_all_threads"
    /\ \A t \in Tids : wpc[t] = "exit"
    /\ mpc' = "exit"
    /\ UNCHANGED <<cfgvars, fdcall, k, m, last_m, last_print, out, cur, end, posted,
                   epoch, iocp, wpc, base, off, bad_bits, tsbvars, starts>>

\* ---------------------------------------------------------------- workers
\* mutant of TileBase: the batch start is left out
TileBase_nostart(e, tid) == U64(tid * e.tile_len)

\* worker_main: base = e->start_m + tid * e->tile_len
TileBase(e, tid) == U64(e.start_m + tid * e.tile_len)

\* GetQueuedCompletionStatus returns the oldest packet to whichever thread asks
WorkerGet(t) ==
    /\ wpc[t] = "wait"
    /\ iocp # << >>
    /\ iocp' = Tail(iocp)
    /\ IF Head(iocp) = KEY_STOP
       THEN /\ wpc' = [wpc EXCEPT ![t] = "exit"]
            /\ UNCHANGED <<base, off, bad_bits, starts>>
       ELSE /\ wpc' = [wpc EXCEPT ![t] = "loop"]
            /\ base' = [base EXCEPT ![t] = TileBase(epoch, t)]
            /\ off' = [off EXCEPT ![t] = worker_init_offsets_for_epoch(epoch, t)]
            /\ bad_bits' = bad_bits
            /\ starts' = [starts EXCEPT ![t] = @ + 1]
    /\ UNCHANGED <<cfgvars, fdcall, mainvars, epoch, tsbvars>>

\* one pass of the tile loop: load end_limit, leave or scan the tile
WorkerTile(t) ==
    /\ wpc[t] = "loop"
    /\ LET lim == epoch.end_limit
       IN  IF base[t] > lim
           THEN /\ wpc' = [wpc EXCEPT ![t] = "epoch_done"]
                /\ UNCHANGED <<base, off, bad_bits, found>>
           ELSE LET max_starts  == U64(lim - base[t] + 1)
                    start_count == IF max_starts >= epoch.tile_len
                                   THEN epoch.tile_len ELSE max_starts
                IN  \E r \in {scan_tile_find_m_carried_fastdiv(epoch, base[t],
                                                             start_count, off[t], bad_bits[t])} :
                    /\ off' = [off EXCEPT ![t] = r.off]
                    /\ bad_bits' = [bad_bits EXCEPT ![t] = r.bad_bits]
                    /\ IF r.found # UINT64_MAX
                       THEN /\ found' = [found EXCEPT ![t] = r.found]
                            /\ wpc' = [wpc EXCEPT ![t] = "tsb_load"]
                            /\ base' = base
                       ELSE /\ base' = [base EXCEPT ![t] = U64(@ + epoch.step)]
                            /\ UNCHANGED <<wpc, found>>
    /\ UNCHANGED <<cfgvars, fdcall, mainvars, epoch, iocp, tcur, new_lim, old_lim, starts>>

\* mutant of NewLim: the limit is not moved below the hit
NewLim_nodec(mm) == mm

\* try_set_best: new_lim = (m == 0) ? 0 : (m - 1)
NewLim(mm) == IF mm = 0 THEN 0 ELSE mm - 1

\* return from try_set_best into the tile loop: base += e->step
TsbReturn(t) ==
    /\ wpc' = [wpc EXCEPT ![t] = "loop"]
    /\ base' = [base EXCEPT ![t] = U64(@ + epoch.step)]
    /\ found' = found
    /\ tcur' = [tcur EXCEPT ![t] = 0]
    /\ new_lim' = [new_lim EXCEPT ![t] = 0]
    /\ old_lim' = [old_lim EXCEPT ![t] = 0]

\* mutant of TsbLoad: the test m >= cur is missing
TsbLoad_nocheck(t) ==
    /\ wpc[t] = "tsb_load"
    /\ tcur' = [tcur EXCEPT ![t] = epoch.best_m]
    /\ wpc' = [wpc EXCEPT ![t] = "tsb_cas"]
    /\ UNCHANGED <<cfgvars, fdcall, mainvars, epoch, iocp, base, off, bad_bits, found, new_lim,
                   old_lim, starts>>

\* try_set_best: cur = load_u64(&best_m); if (m >= cur) return
TsbLoad(t) ==
    /\ wpc[t] = "tsb_load"
    /\ IF found[t] >= epoch.best_m
       THEN TsbReturn(t)
       ELSE /\ tcur' = [tcur EXCEPT ![t] = epoch.best_m]
            /\ wpc' = [wpc EXCEPT ![t] = "tsb_cas"]
            /\ UNCHANGED <<base, found, new_lim, old_lim>>
    /\ UNCHANGED <<cfgvars, fdcall, mainvars, epoch, iocp, off, bad_bits, starts>>

\* mutant of TsbCas: best_m is stored without comparing it with cur
TsbCas_blind(t) ==
    /\ wpc[t] = "tsb_cas"
    /\ epoch' = [epoch EXCEPT !.best_m = found[t]]
    /\ new_lim' = [new_lim EXCEPT ![t] = NewLim(found[t])]
    /\ wpc' = [wpc EXCEPT ![t] = "lim_load"]
    /\ UNCHANGED <<cfgvars, fdcall, mainvars, iocp, base, off, bad_bits, found, tcur, old_lim, starts>>

\* try_set_best: InterlockedCompareExchange64(&best_m, m, cur)
TsbCas(t) ==
    /\ wpc[t] = "tsb_cas"
    /\ IF epoch.best_m = tcur[t]
       THEN /\ epoch' = [epoch EXCEPT !.best_m = found[t]]
            /\ new_lim' = [new_lim EXCEPT ![t] = NewLim(found[t])]
            /\ wpc' = [wpc EXCEPT ![t] = "lim_load"]
       ELSE /\ wpc' = [wpc EXCEPT ![t] = "tsb_load"]
            /\ UNCHANGED <<epoch, new_lim>>
    /\ UNCHANGED <<cfgvars, fdcall, mainvars, iocp, base, off, bad_bits, found, tcur, old_lim, starts>>

\* try_set_best: old_lim = load_u64(&end_limit); if (new_lim >= old_lim) break
LimLoad(t) ==
    /\ wpc[t] = "lim_load"
    /\ IF new_lim[t] >= epoch.end_limit
       THEN TsbReturn(t)
       ELSE /\ old_lim' = [old_lim EXCEPT ![t] = epoch.end_limit]
            /\ wpc' = [wpc EXCEPT ![t] = "lim_cas"]
            /\ UNCHANGED <<base, found, tcur, new_lim>>
    /\ UNCHANGED <<cfgvars, fdcall, mainvars, epoch, iocp, off, bad_bits, starts>>

\* try_set_best: InterlockedCompareExchange64(&end_limit, new_lim, old_lim)
LimCas(t) ==
    /\ wpc[t] = "lim_cas"
    /\ IF epoch.end_limit = old_lim[t]
       THEN /\ epoch' = [epoch EXCEPT !.end_limit = new_lim[t]]
            /\ TsbReturn(t)
       ELSE /\ wpc' = [wpc EXCEPT ![t] = "lim_load"]
            /\ UNCHANGED <<epoch, base, found, tcur, new_lim, old_lim>>
    /\ UNCHANGED <<cfgvars, fdcall, mainvars, iocp, off, bad_bits, starts>>

\* mutant of WorkerEpochDone: the last worker does not signal the event
WorkerEpochDone_nosignal(t) ==
    /\ wpc[t] = "epoch_done"
    /\ epoch' = [epoch EXCEPT !.active_workers = @ - 1]
    /\ wpc' = [wpc EXCEPT ![t] = "wait"]
    /\ base' = [base EXCEPT ![t] = 0]
    /\ off' = [off EXCEPT ![t] = << >>]
    /\ bad_bits' = [bad_bits EXCEPT ![t] = << >>]
    /\ found' = [found EXCEPT ![t] = 0]
    /\ UNCHANGED <<cfgvars, fdcall, mainvars, iocp, tcur, new_lim, old_lim, starts>>

\* mutant of WorkerEpochDone: every worker that finishes sets the event
WorkerEpochDone_always(t) ==
    /\ wpc[t] = "epoch_done"
    /\ epoch' = [epoch EXCEPT !.active_workers = @ - 1]
    /\ wpc' = [wpc EXCEPT ![t] = "set_event"]
    /\ base' = [base EXCEPT ![t] = 0]
    /\ off' = [off EXCEPT ![t] = << >>]
    /\ bad_bits' = [bad_bits EXCEPT ![t] = << >>]
    /\ found' = [found EXCEPT ![t] = 0]
    /\ UNCHANGED <<cfgvars, fdcall, mainvars, iocp, tcur, new_lim, old_lim, starts>>

\* worker_epoch_done: InterlockedDecrement(&active_workers) == 0
WorkerEpochDone(t) ==
    /\ wpc[t] = "epoch_done"
    /\ epoch' = [epoch EXCEPT !.active_workers = @ - 1]
    /\ wpc' = [wpc EXCEPT ![t] = IF epoch.active_workers - 1 = 0
                                 THEN "set_event" ELSE "wait"]
    /\ base' = [base EXCEPT ![t] = 0]
    /\ off' = [off EXCEPT ![t] = << >>]
    /\ bad_bits' = [bad_bits EXCEPT ![t] = << >>]
    /\ found' = [found EXCEPT ![t] = 0]
    /\ UNCHANGED <<cfgvars, fdcall, mainvars, iocp, tcur, new_lim, old_lim, starts>>

\* worker_epoch_done: SetEvent(evt_done)
WorkerSetEvent(t) ==
    /\ wpc[t] = "set_event"
    /\ epoch' = [epoch EXCEPT !.evt_done = TRUE]
    /\ wpc' = [wpc EXCEPT ![t] = "wait"]
    /\ UNCHANGED <<cfgvars, fdcall, mainvars, iocp, base, off, bad_bits, tsbvars, starts>>

Next ==
    \/ MainCall
    \/ EpochBegin
    \/ PostStart
    \/ EpochWait
    \/ MainRet
    \/ MainLoopExit
    \/ StopWorkers
    \/ WaitAllThreads
    \/ \E t \in Tids : WorkerGet(t)
    \/ \E t \in Tids : WorkerTile(t)
    \/ \E t \in Tids : TsbLoad(t)
    \/ \E t \in Tids : TsbCas(t)
    \/ \E t \in Tids : LimLoad(t)
    \/ \E t \in Tids : LimCas(t)
    \/ \E t \in Tids : WorkerEpochDone(t)
    \/ \E t \in Tids : WorkerSetEvent(t)

Spec == Init /\ [][Next]_vars

\* ---- fair scheduling: a thread that can return from
\* GetQueuedCompletionStatus or from wait_all_threads eventually does
FairSpec ==
    /\ Spec
    /\ WF_vars(WaitAllThreads)
    /\ \A t \in 0..(MaxThreads - 1) : WF_vars(t \in Tids /\ WorkerGet(t))

\* ---- fair scheduling inside an epoch: the controller keeps posting and every
\* worker thread that can take a step eventually takes one
Worker(t) ==
    \/ WorkerGet(t) \/ WorkerTile(t) \/ TsbLoad(t) \/ TsbCas(t)
    \/ LimLoad(t) \/ LimCas(t) \/ WorkerEpochDone(t) \/ WorkerSetEvent(t)

\* checked on the configurations with the longest batches
FairConfigs ==
    [K : {MaxK}, threads : 1..MaxThreads, tile_len : {1, MaxTileLen},
     batch_tiles : {MaxBatchTiles}]

FairEpochSpec ==
    /\ InitWith(FairConfigs)
    /\ [][Next]_vars
    /\ WF_vars(PostStart)
    /\ \A t \in 0..(MaxThreads - 1) : WF_vars(t \in Tids /\ Worker(t))

\* ---- try_set_best alone: after epoch_begin, with best_m = UINT64_MAX and
\* end_limit = end_m, every thread is about to call try_set_best(found[t])
InitTsb ==
    /\ thread_count \in 1..MaxTsbThreads
    /\ K = 1 /\ tile_len = 1 /\ batch_tiles = 1
    /\ mpc = "epoch_wait"
    /\ k = 1 /\ m = 0 /\ last_m = 0 /\ last_print = UINT64_MAX /\ out = << >>
    /\ cur = 0 /\ posted = thread_count
    /\ end \in 0..MaxTsbM
    /\ epoch = [EpochZero EXCEPT !.k = 1, !.tile_len = 1, !.end_m = end,
                                 !.best_m = UINT64_MAX, !.end_limit = end,
                                 !.active_workers = thread_count]
    /\ iocp = << >>
    /\ wpc = [t \in Tids |-> "tsb_load"]
    /\ base = [t \in Tids |-> 0]
    /\ off = [t \in Tids |-> << >>]
    /\ bad_bits = [t \in Tids |-> << >>]
    /\ fdcall = FdIdle
    /\ found \in [Tids -> 1..MaxTsbM]
    /\ tcur = [t \in Tids |-> 0]
    /\ new_lim = [t \in Tids |-> 0]
    /\ old_lim = [t \in Tids |-> 0]
    /\ starts = [t \in Tids |-> 1]

NextTsb ==
    \/ \E t \in Tids : TsbLoad(t)
    \/ \E t \in Tids : TsbCas(t)
    \/ \E t \in Tids : LimLoad(t)
    \/ \E t \in Tids : LimCas(t)

SpecTsb == InitTsb /\ [][NextTsb]_vars

\* ---- the FastDivU32 routines alone: one call for a prime d and a word n
\* (d is a 32-bit value beside 64-bit n: half the word)
FdPrimes == primes_upto(Pow2(WordBits \div 2) - 1)

InitFastDiv ==
    /\ K = EndToEnd.K /\ thread_count = EndToEnd.threads
    /\ tile_len = EndToEnd.tile_len /\ batch_tiles = EndToEnd.batch_tiles
    /\ mpc = "main_loop"
    /\ k = 1 /\ m = 0 /\ last_m = 0 /\ last_print = UINT64_MAX /\ out = << >>
    /\ cur = 0 /\ end = 0 /\ posted = 0
    /\ epoch = EpochZero
    /\ iocp = << >>
    /\ wpc = [t \in Tids |-> "wait"]
    /\ base = [t \in Tids |-> 0]
    /\ off = [t \in Tids |-> << >>]
    /\ bad_bits = [t \in Tids |-> << >>]
    /\ found = [t \in Tids |-> 0]
    /\ tcur = [t \in Tids |-> 0]
    /\ new_lim = [t \in Tids |-> 0]
    /\ old_lim = [t \in Tids |-> 0]
    /\ starts = [t \in Tids |-> 0]
    /\ \E pi \in 1..Len(FdPrimes), n \in 0..UINT64_MAX :
          fdcall = [FdIdle EXCEPT !.pc = "call", !.d = FdPrimes[pi], !.n = n, !.n_io = n]

\* fastdiv_u32_make_prime(d), then fastdiv_u32_divmod(&fd, n, &q, &r) and
\* fastdiv_u32_divide_if_divisible(&fd, &n_io)
FastDivCall ==
    /\ fdcall.pc = "call"
    /\ \E f \in {fastdiv_u32_make_prime(fdcall.d)} :
          \E qr \in {fastdiv_u32_divmod(f, fdcall.n)} :
              \E dv \in {fastdiv_u32_divide_if_divisible(f, fdcall.n_io)} :
                  fdcall' = [fdcall EXCEPT !.pc = "done", !.q = qr.q, !.r = qr.r,
                                           !.ret = dv.ret, !.n_io = dv.n_io]
    /\ UNCHANGED <<cfgvars, mainvars, epoch, iocp, wpc, base, off, bad_bits,
                   tsbvars, starts>>

NextFastDiv == FastDivCall

SpecFastDiv == InitFastDiv /\ [][NextFastDiv]_vars

TypeOK ==
    /\ mpc \in {"main_loop", "epoch_begin", "post_start", "epoch_wait", "main_ret",
                "stop_workers", "wait_all_threads", "exit"}
    /\ \A t \in Tids : wpc[t] \in {"wait", "loop", "tsb_load", "tsb_cas", "lim_load",
                                   "lim_cas", "epoch_done", "set_event", "exit"}
    /\ epoch.best_m \in 0..UINT64_MAX
    /\ epoch.end_limit \in 0..UINT64_MAX

\* ----------------------------------------------------- trial-division oracle
RECURSIVE DivideOut(_, _)
DivideOut(n, d) == IF n % d = 0 THEN DivideOut(n \div d, d) ELSE n

RECURSIVE TrialDivide(_, _, _)
TrialDivide(n, d, kk) ==
    IF d > kk THEN n ELSE TrialDivide(DivideOut(n, d), d + 1, kk)

\* every prime factor of n is <= kk
IsKSmooth(n, kk) == TrialDivide(n, 2, kk) = 1

AllSmooth(mm, kk)  == \A i \in 1..kk : IsKSmooth(mm + i, kk)
NoneSmooth(mm, kk) == \A i \in 1..kk : ~IsKSmooth(mm + i, kk)

RECURSIVE FirstAllSmooth(_, _, _)
FirstAllSmooth(kk, lo, hi) ==
    IF lo > hi THEN UINT64_MAX
    ELSE IF AllSmooth(lo, kk) THEN lo ELSE FirstAllSmooth(kk, lo + 1, hi)

RECURSIVE FirstNoneSmooth(_, _, _)
FirstNoneSmooth(kk, lo, hi) ==
    IF lo > hi THEN UINT64_MAX
    ELSE IF NoneSmooth(lo, kk) THEN lo ELSE FirstNoneSmooth(kk, lo + 1, hi)

\* the done event of the current epoch is set and the controller has not yet read best_m
EpochDone == mpc = "epoch_wait" /\ epoch.evt_done

\* ------------------------------------------------------------------ claims

\* C1: the best_m one epoch returns is the minimal m in [start_m, end_m] with
\* m+1..m+k all k-smooth, and UINT64_MAX when there is none.
C1_EpochMinAllSmooth ==
    EpochDone =>
        epoch.best_m = FirstAllSmooth(epoch.k, epoch.start_m, epoch.end_m)

\* The same with the hit condition of the code (none of m+1..m+k is k-smooth):
\* what the epoch returns with one worker, and what a lost stride breaks.
EpochMinNoneSmooth ==
    EpochDone =>
        epoch.best_m = FirstNoneSmooth(epoch.k, epoch.start_m, epoch.end_m)

EpochMinNoneSmoothOneWorker ==
    (EpochDone /\ thread_count = 1) =>
        epoch.best_m = FirstNoneSmooth(epoch.k, epoch.start_m, epoch.end_m)

\* C2: for every thread_count and every interleaving find_m_for_k returns the m
\* that the run with one worker returns, the least hit at or above start_m.
C2_ResultIndependentOfThreads ==
    mpc = "main_ret" => m = FirstNoneSmooth(k, last_m, UINT64_MAX - k)

\* C3: in every epoch no worker dequeues two KEY_START packets, and when the
\* done event is set every worker has dequeued exactly one.
C3_OneStartPerWorker ==
    /\ \A t \in Tids : starts[t] <= 1
    /\ EpochDone => \A t \in Tids : starts[t] = 1

IsEndToEnd ==
    /\ K = EndToEnd.K /\ thread_count = EndToEnd.threads
    /\ tile_len = EndToEnd.tile_len /\ batch_tiles = EndToEnd.batch_tiles

PrintedKs == [i \in 1..Len(out) |-> out[i][1]]
PrintedMs == [i \in 1..Len(out) |-> out[i][2]]

SpecTable == <<1, 3, 8, 8, 8, 8, 14, 14, 23, 23>>
CodeTable == <<1, 4, 12, 18, 54, 64, 112, 150, 150, 225>>

\* C4 as stated: K=10, tile_len=4, batch_tiles=2, threads=1 computes
\* m(k) = 1, 3, 8, 8, 8, 8, 14, 14, 23, 23 and prints rows for k = 1, 2, 3, 7, 9.
C4_EndToEndSpecTable ==
    IsEndToEnd =>
        /\ mpc = "main_ret" => m = SpecTable[k]
        /\ mpc = "exit" => PrintedKs = <<1, 2, 3, 7, 9>>

\* C4 amended: the same run computes m(k) = 1, 4, 12, 18, 54, 64, 112, 150, 150,
\* 225 and prints rows for k = 1..8 and 10 (k = 9 repeats 150).
C4_EndToEndCodeTable ==
    IsEndToEnd =>
        /\ mpc = "main_ret" => m = CodeTable[k]
        /\ mpc = "exit" => /\ PrintedKs = <<1, 2, 3, 4, 5, 6, 7, 8, 10>>
                           /\ PrintedMs = <<1, 4, 12, 18, 54, 64, 112, 150, 225>>

C4_Witness == IsEndToEnd /\ mpc = "exit" /\ Len(out) = 9

\* C5: find_m_for_k never returns a value below its start_m, so the values main
\* obtains are non-decreasing in k and the printed ones strictly increasing.
C5_MonotoneInK ==
    /\ mpc = "main_ret" => last_m <= m
    /\ \A i \in 1..Len(out) : \A j \in 1..Len(out) :
          i < j => out[i][2] < out[j][2]

C5_Witness ==
    /\ mpc = "main_loop" /\ k > K
    /\ Len(out) >= 2
    /\ Len(out) < K

\* the controller is outside an epoch: epoch_wait has returned (or can return)
\* and the next epoch_begin has not yet posted
Quiescent == mpc \notin {"post_start", "epoch_wait"} \/ EpochDone

\* C6: the done event is set only by the worker whose decrement brought
\* active_workers to zero, and from the moment the event is set until the next
\* epoch_begin no worker is in its tile loop and best_m, end_limit do not change.
C6_DoneLatch ==
    /\ [](\A t \in Tids : wpc[t] = "set_event" =>
              /\ epoch.active_workers = 0
              /\ \A u \in Tids \ {t} : wpc[u] = "wait")
    /\ [](Quiescent => /\ \A t \in Tids : wpc[t] \in {"wait", "exit"}
                       /\ epoch.active_workers = 0)
    /\ [][(epoch'.evt_done /\ ~epoch.evt_done) =>
              /\ epoch.active_workers = 0
              /\ \E t \in Tids : wpc[t] = "set_event" /\ wpc'[t] = "wait"]_vars
    /\ [][(Quiescent /\ mpc # "epoch_begin") =>
              /\ epoch'.best_m = epoch.best_m
              /\ epoch'.end_limit = epoch.end_limit]_vars

C6_Witness ==
    /\ mpc = "main_ret"
    /\ thread_count >= 2
    /\ epoch.evt_done
    /\ m = epoch.best_m

InEpoch == mpc \in {"post_start", "epoch_wait"}

\* C7 as stated: in every state of an epoch, best_m finite implies
\* end_limit <= best_m - 1, also between the two CAS loops of try_set_best.
C7_E1Always ==
    (InEpoch /\ epoch.best_m # UINT64_MAX) => epoch.end_limit <= epoch.best_m - 1

\* C7 amended: E1 holds in every state of an epoch in which no worker is between
\* its successful CAS on best_m and the end of its end_limit loop.
C7_E1Settled ==
    (/\ InEpoch
     /\ epoch.best_m # UINT64_MAX
     /\ \A t \in Tids : wpc[t] \notin {"lim_load", "lim_cas"})
    => epoch.end_limit <= epoch.best_m - 1

C7_Witness ==
    /\ InEpoch
    /\ epoch.best_m # UINT64_MAX
    /\ epoch.end_limit = epoch.best_m - 1
    /\ \E t \in Tids : wpc[t] = "tsb_load"
    /\ \A t \in Tids : wpc[t] \notin {"lim_load", "lim_cas"}

MinOf(S) == CHOOSE x \in S : \A y \in S : x <= y

Min2(a, b) == IF a <= b THEN a ELSE b

AllReturned == \A t \in Tids : wpc[t] = "loop"

\* C8: best_m and end_limit never increase within an epoch, and once all the
\* concurrent try_set_best(m_t) calls have returned best_m is the least m_t and
\* end_limit = min(end_m, best_m - 1), whatever the interleaving.
C8_MonotoneMin ==
    /\ [][/\ epoch'.best_m <= epoch.best_m
          /\ epoch'.end_limit <= epoch.end_limit]_vars
    /\ [](AllReturned =>
            /\ epoch.best_m = MinOf({found[t] : t \in Tids})
            /\ epoch.end_limit = Min2(epoch.end_m, epoch.best_m - 1))

C8_Witness ==
    /\ AllReturned
    /\ thread_count = 3
    /\ found[0] > found[1] /\ found[1] > found[2]
    /\ epoch.end_limit < epoch.end_m

\* C9: with one worker the m find_m_for_k returns is the least hit at or above
\* start_m, whatever tile_len and batch_tiles are.
C9_OneWorkerAnyTiling ==
    (thread_count = 1 /\ mpc = "main_ret") =>
        m = FirstNoneSmooth(k, last_m, UINT64_MAX - k)

C9_Witness ==
    /\ thread_count = 1 /\ tile_len = 1 /\ batch_tiles = 1
    /\ mpc = "main_ret"
    /\ k >= 2
    /\ m > last_m

AllStopped == (\A t \in Tids : wpc[t] = "exit") /\ iocp = << >>

\* C10: once stop_workers has posted its thread_count KEY_STOP packets every
\* worker dequeues one and terminates, and no packet is left in the queue.
C10_StopTerminates == (mpc = "wait_all_threads") ~> (mpc = "exit" /\ AllStopped)

C10_Witness == mpc = "exit" /\ AllStopped /\ thread_count >= 2

InTileLoop(t) == wpc[t] \in {"loop", "tsb_load", "tsb_cas", "lim_load", "lim_cas"}

\* C11: every epoch terminates: inside its tile loop a worker's base only moves
\* up, by step >= 1, and once epoch_begin has set the epoch up active_workers
\* reaches zero and the done event is set.
C11_EpochTerminates ==
    /\ [][\A t \in Tids :
            (InTileLoop(t) /\ InTileLoop(t)' /\ base'[t] # base[t]) =>
                /\ epoch.step >= 1
                /\ base'[t] = base[t] + epoch.step]_vars
    /\ (mpc = "post_start") ~> (epoch.evt_done /\ epoch.active_workers = 0)

C11_Witness ==
    /\ EpochDone
    /\ thread_count >= 2
    /\ epoch.active_workers = 0
    /\ epoch.end_limit < epoch.end_m

InTrySetBest(t) == wpc[t] \in {"tsb_load", "tsb_cas", "lim_load", "lim_cas"}

\* the worker's buffer holds the bits of the tile it sieved last
Sieved(t) == DOMAIN bad_bits[t] # {}

\* m0 and start_count of the tile the worker sieved last
LastM0(t) == IF InTrySetBest(t) THEN base[t] ELSE base[t] - epoch.step
LastCount(t) == Cardinality(DOMAIN bad_bits[t]) - epoch.k

\* smallest s in [0, start_count) whose window of kk bits holds `want` set bits
FirstWindow(bits, kk, start_count, want) ==
    LET S == {s \in 0..(start_count - 1) : CountBits(bits, s, s + kk - 1) = want}
    IN  IF S = {} THEN -1 ELSE CHOOSE s \in S : \A s2 \in S : s <= s2

ExpectedHit(t, want) ==
    LET s == FirstWindow(bad_bits[t], epoch.k, LastCount(t), want)
    IN  IF s = -1 THEN UINT64_MAX ELSE LastM0(t) + s

\* the scan of the last tile gave what a window holding `want` set bits gives
ScanGives(t, want) ==
    /\ ScanBits(bad_bits[t], epoch.k, LastM0(t), LastCount(t)) = ExpectedHit(t, want)
    /\ wpc[t] = "tsb_load" => found[t] = ExpectedHit(t, want)
    /\ wpc[t] \in {"loop", "epoch_done"} =>
           ExpectedHit(t, want) \in {UINT64_MAX, found[t]}

\* C12 as stated: the window scan of a tile returns m0 + s for the smallest s in
\* [0, start_count) whose k bits are all set, and UINT64_MAX when there is none.
C12_ScanAllSet == \A t \in Tids : Sieved(t) => ScanGives(t, epoch.k)

\* C12 amended: the window scan of a tile returns m0 + s for the smallest s in
\* [0, start_count) whose k bits are all clear, and UINT64_MAX when there is none.
C12_ScanNoneSet == \A t \in Tids : Sieved(t) => ScanGives(t, 0)

C12_Witness ==
    \E t \in Tids :
        /\ wpc[t] = "tsb_load"
        /\ found[t] = base[t] + 1
        /\ bad_bits[t][0] = 1
        /\ CountBits(bad_bits[t], 1, epoch.k) = 0
        /\ epoch.k >= 2

\* the buffer of the last tile has its bit set exactly at the k-smooth values
SmoothBits(t) ==
    \A i \in DOMAIN bad_bits[t] :
        (bad_bits[t][i] = 1) <=> IsKSmooth(LastM0(t) + 1 + i, epoch.k)

\* the least m of the last tile with none of m+1..m+k k-smooth
TileFirstNoneSmooth(t) ==
    FirstNoneSmooth(epoch.k, LastM0(t), LastM0(t) + LastCount(t) - 1)

\* C13: a tile scan sets bad_bits[i] exactly at the k-smooth positions and
\* reports the smallest m = m0 + s, s in [0, start_count), such that none of
\* m+1..m+k is k-smooth; it returns UINT64_MAX when there is no such s or when
\* start_count = 0.
C13_ReferenceTile ==
    \A t \in Tids :
        /\ Sieved(t) =>
              /\ SmoothBits(t)
              /\ ScanBits(bad_bits[t], epoch.k, LastM0(t), LastCount(t))
                    = TileFirstNoneSmooth(t)
              /\ wpc[t] = "tsb_load" => found[t] = TileFirstNoneSmooth(t)
              /\ wpc[t] \in {"loop", "epoch_done"} =>
                    TileFirstNoneSmooth(t) \in {UINT64_MAX, found[t]}
        /\ wpc[t] = "loop" =>
              scan_tile_find_m_carried_fastdiv(epoch, base[t], 0, off[t],
                                               bad_bits[t]).found = UINT64_MAX

\* a tile without a hit although some of its values are not k-smooth
C13_Witness ==
    \E t \in Tids :
        /\ wpc[t] = "loop"
        /\ Sieved(t)
        /\ epoch.k >= 3
        /\ TileFirstNoneSmooth(t) = UINT64_MAX
        /\ \E i \in DOMAIN bad_bits[t] : bad_bits[t][i] = 0

\* what a search with the hit condition "all k bits set" returns from start_m
AllSetSearch ==
    LET S == {x \in last_m..(UINT64_MAX - k) : AllSmooth(x, k)}
    IN  IF S = {} THEN UINT64_MAX ELSE CHOOSE x \in S : \A y \in S : x <= y

\* C14 as stated: the search with the hit condition "all k bits of the window
\* are set" returns the m that the reference search (no bit set) returns.
C14_ConventionsAgree == mpc = "main_ret" => m = AllSetSearch

\* C14 amended: the m the reference search returns has none of m+1..m+k
\* k-smooth, so it is no hit of the "all k bits set" convention, and the search
\* with that convention returns another value.
C14_ConventionsDiffer ==
    mpc = "main_ret" =>
        /\ NoneSmooth(m, k)
        /\ ~AllSmooth(m, k)
        /\ m # AllSetSearch

C14_Witness ==
    /\ mpc = "main_ret"
    /\ k >= 2
    /\ m > last_m
    /\ AllSetSearch = UINT64_MAX

\* C15: after the sieve of a tile, for every i in [0, start_count + k) the bit
\* bad_bits[i] is set if and only if base_test + i is k-smooth; this holds for
\* every tile, the truncated ones (start_count < tile_len) included.
C15_SieveMarksSmooth ==
    \A t \in Tids :
        Sieved(t) =>
            /\ LastCount(t) \in 1..epoch.tile_len
            /\ DOMAIN bad_bits[t] = 0..(LastCount(t) + epoch.k - 1)
            /\ \A i \in 0..(LastCount(t) + epoch.k - 1) :
                   (bad_bits[t][i] = 1) <=> IsKSmooth(LastM0(t) + 1 + i, epoch.k)

\* a truncated tile with smooth and non-smooth values
C15_Witness ==
    \E t \in Tids :
        /\ Sieved(t)
        /\ LastCount(t) < epoch.tile_len
        /\ epoch.k >= 2
        /\ \E i, j \in DOMAIN bad_bits[t] : bad_bits[t][i] = 1 /\ bad_bits[t][j] = 0

\* base_test of the tile the worker sieves next
NextBaseTest(t) ==
    IF InTrySetBest(t) THEN base[t] + epoch.step + 1 ELSE base[t] + 1

\* C16: at the start of each tile of a worker's stride, for every prime p <= k,
\* off[pi] < p and off[pi] is the least i >= 0 with (base_test + i) mod p = 0;
\* worker_init_offsets_for_epoch sets this up and the step_mod update keeps it.
C16_CarriedOffsets ==
    \A t \in Tids :
        wpc[t] \in {"loop", "tsb_load", "tsb_cas", "lim_load", "lim_cas", "epoch_done"} =>
            /\ DOMAIN off[t] = 1..Len(epoch.primes)
            /\ \A pi \in 1..Len(epoch.primes) :
                   LET p == epoch.primes[pi]
                   IN  /\ p <= epoch.k
                       /\ off[t][pi] \in 0..(p - 1)
                       /\ (NextBaseTest(t) + off[t][pi]) % p = 0
                       /\ \A i \in 0..(off[t][pi] - 1) : (NextBaseTest(t) + i) % p # 0

\* offsets carried over at least one tile, with a wrap-around for the prime 3
C16_Witness ==
    \E t \in Tids :
        /\ wpc[t] = "loop"
        /\ Sieved(t)
        /\ epoch.k >= 3
        /\ off[t] # worker_init_offsets_for_epoch(epoch, t)
        /\ off[t][2] > worker_init_offsets_for_epoch(epoch, t)[2]

\* C17: for every prime d with the reciprocal of fastdiv_u32_make_prime and
\* every word n, fastdiv_u32_divmod returns q = n div d and r = n mod d after
\* at most two corrections of mulhi(n, mul), and
\* fastdiv_u32_divide_if_divisible stores q and returns 1 when r = 0, else
\* returns 0 and leaves n unchanged.
C17_FastDivExact ==
    fdcall.pc = "done" =>
        /\ fastdiv_u32_make_prime(fdcall.d).mul =
              (IF fdcall.d = 2 THEN Pow2(WordBits - 1) ELSE (Pow2(WordBits) - 1) \div fdcall.d)
        /\ fdcall.q = fdcall.n \div fdcall.d
        /\ fdcall.r = fdcall.n % fdcall.d
        /\ fdcall.q - mulhi_u64(fdcall.n, fastdiv_u32_make_prime(fdcall.d).mul) \in 0..2
        /\ fdcall.ret = (IF fdcall.n % fdcall.d = 0 THEN 1 ELSE 0)
        /\ fdcall.n_io = (IF fdcall.n % fdcall.d = 0 THEN fdcall.n \div fdcall.d
                          ELSE fdcall.n)

\* a divisible n near the top of the word whose estimate had to be corrected
C17_Witness ==
    /\ fdcall.pc = "done"
    /\ fdcall.d >= 3
    /\ fdcall.n > UINT64_MAX - fdcall.d
    /\ fdcall.ret = 1
    /\ fdcall.q # mulhi_u64(fdcall.n, fastdiv_u32_make_prime(fdcall.d).mul)

Span == IF U64(tile_len * batch_tiles) = 0 THEN tile_len ELSE U64(tile_len * batch_tiles)

\* the steps of find_m_for_k's batch loop: the first cursor, the range of each
\* epoch, and the move to the next batch
BatchStep ==
    /\ (mpc = "main_loop" /\ mpc' = "epoch_begin") => cur' = last_m
    /\ (mpc = "epoch_begin" /\ mpc' = "post_start") =>
          /\ epoch'.start_m = cur
          /\ epoch'.end_m = cur + Span - 1
    /\ (mpc = "epoch_wait" /\ mpc' = "epoch_begin") =>
          /\ epoch.best_m = UINT64_MAX
          /\ cur' = epoch.end_m + 1
    /\ (mpc = "epoch_wait" /\ mpc' = "main_ret") =>
          /\ epoch.best_m # UINT64_MAX
          /\ m' = epoch.best_m

\* the first batch that holds a hit returns the least hit at or above start_m
BatchHit ==
    /\ (mpc = "epoch_wait" /\ mpc' = "epoch_begin") =>
          FirstNoneSmooth(k, epoch.start_m, epoch.end_m) = UINT64_MAX
    /\ (mpc = "epoch_wait" /\ mpc' = "main_ret") =>
          m' = FirstNoneSmooth(k, last_m, epoch.end_m)

BatchesContiguous == [][BatchStep]_vars

\* C18: within one find_m_for_k call the first epoch scans [start_m, start_m +
\* span - 1], each later epoch starts at the previous end_m + 1 and only after an
\* epoch without a hit, and the first batch that contains a hit yields the
\* smallest hit >= start_m.
C18_FirstBatchWithHit == [][BatchStep /\ BatchHit]_vars

\* the stride a start m belongs to, and the least hit of the strides whose
\* worker dequeued a KEY_START in this epoch
StrideOf(x) == ((x - epoch.start_m) \div epoch.tile_len) % thread_count

ScannedMin ==
    LET S == {x \in epoch.start_m..epoch.end_m :
                 starts[StrideOf(x)] >= 1 /\ NoneSmooth(x, epoch.k)}
    IN  IF S = {} THEN UINT64_MAX ELSE CHOOSE x \in S : \A y \in S : x <= y

\* worker t reports a hit that is not below the current best_m
StaleReport(t) == wpc[t] \in {"tsb_load", "tsb_cas"} /\ found[t] >= epoch.best_m

\* C19: a hit found under an end_limit that has since been lowered and reported
\* with m >= the current best_m leaves best_m and end_limit as they are, and
\* the best_m of the finished epoch is the least hit of the strides that ran,
\* whatever end_limit each tile was sieved under.
C19_StaleLimitHarmless ==
    /\ [][\A t \in Tids :
            (StaleReport(t) /\ wpc'[t] # wpc[t]) =>
                /\ epoch'.best_m = epoch.best_m
                /\ epoch'.end_limit = epoch.end_limit]_vars
    /\ [](EpochDone => epoch.best_m = ScannedMin)

\* a hit from a tile beyond the lowered end_limit has been reported and dropped
C19_Witness ==
    \E t \in Tids :
        /\ wpc[t] = "loop"
        /\ Sieved(t)
        /\ found[t] >= LastM0(t)
        /\ found[t] > epoch.best_m
        /\ LastM0(t) > epoch.end_limit

\* worker t is between dequeuing a KEY_START and its worker_epoch_done decrement
Busy(t) == wpc[t] \in {"loop", "tsb_load", "tsb_cas", "lim_load", "lim_cas", "epoch_done"}

\* C20: the controller writes or frees the epoch header (k, tile_len, step,
\* start_m, end_m, primes, fd, step_mod, best_m, end_limit) only while no worker
\* is between dequeuing a KEY_START and its worker_epoch_done decrement.
C20_HeaderWrittenWhenIdle ==
    [][(mpc' # mpc /\ epoch' # epoch) =>
          /\ \A t \in Tids : ~Busy(t)
          /\ \A i \in 1..Len(iocp) : iocp[i] # KEY_START]_vars

\* primes_free and epoch_free_math have run after an epoch in which workers sieved
C20_Witness ==
    /\ mpc = "main_ret"
    /\ k >= 2
    /\ thread_count >= 2
    /\ epoch.primes = << >>
    /\ \A t \in Tids : starts[t] >= 1 /\ ~Busy(t)

\* KEY_START packets still in the queue
QueuedStarts == Cardinality({i \in 1..Len(iocp) : iocp[i] = KEY_START})

\* workers between dequeuing a KEY_START and their decrement
Running == Cardinality({t \in Tids : Busy(t)})

RECURSIVE SumStarts(_)
SumStarts(S) ==
    IF S = {} THEN 0
    ELSE LET t == CHOOSE x \in S : TRUE IN starts[t] + SumStarts(S \ {t})

\* C21: always 0 <= active_workers <= thread_count; once the KEY_START packets
\* of an epoch are posted active_workers is the number of KEY_START packets
\* still queued plus the number of workers running the epoch (while they are
\* being posted, plus the packets not yet posted); and when the done event is
\* set thread_count stride runs have completed and no KEY_START is queued.
C21_ActiveWorkersAccounting ==
    /\ epoch.active_workers \in 0..thread_count
    /\ mpc # "post_start" => epoch.active_workers = QueuedStarts + Running
    /\ mpc = "post_start" =>
          epoch.active_workers = (thread_count - posted) + QueuedStarts + Running
    /\ epoch.evt_done =>
          /\ SumStarts(Tids) = thread_count
          /\ QueuedStarts = 0
          /\ Running = 0

\* the event is set after an epoch in which one worker ran two of the strides
C21_Witness ==
    /\ EpochDone
    /\ thread_count >= 2
    /\ \E t \in Tids : starts[t] = 2
    /\ SumStarts(Tids) = thread_count
    /\ QueuedStarts = 0
    /\ epoch.active_workers = 0

====
